---------------------------- MODULE Spec2Model ----------------------------
(***************************************************************************)
(* DevLogs back end (src/backend.py, src/utils.py): the byte codec, the    *)
(* Entry and Account records with their serialisation, the entry list      *)
(* operations, and the SessionManager with its background lockout threads. *)
(*                                                                         *)
(* Text is a sequence of Unicode code points, bytes are sequences of       *)
(* 0..255.  A Python call that may raise returns a record                  *)
(* [err |-> "", v |-> value] or [err |-> <exception name>, v |-> <<>>].    *)
(***************************************************************************)
EXTENDS Integers, Sequences, FiniteSets, TLC

VARIABLES
    entries,      \* SpecEntries: Account.entries of one in-memory account
    elast,        \* SpecEntries: the last entry operation and its outcome
    files,        \* the accounts directory: file name -> file
    mgr,          \* the SessionManager object's attributes
    timers,       \* the threads started by SessionManager.hardlock
    callers,      \* SpecOverlap: the threads inside create_session
    alloc,        \* Account objects (and salts) made so far
    lim,          \* the bounds of the specification at hand
    hist,         \* failures and hardlock() calls since the last reset
    wlog,         \* the (object, salt) pairs written to files so far
    ev            \* the last step: operation, exception, effects

evars == <<entries, elast>>

svars == <<files, mgr, timers, callers, alloc, lim, hist, wlog, ev>>

vars ==
    <<entries, elast, files, mgr, timers, callers, alloc, lim, hist, wlog, ev>>

----------------------------------------------------------------------------
(* Results of calls that may raise.                                        *)

Ok(v) == [err |-> "", v |-> v]

Raise(e) == [err |-> e, v |-> <<>>]

----------------------------------------------------------------------------
(* src/utils.py: the codec.                                                *)

\* b'\x00' * n
Zeros(n) == [i \in 1..n |-> 0]

\* seq[a:b] of Python for 0 <= a: never raises, clips at the end.
Slice(s, a, b) ==
    LET hi == IF b > Len(s) THEN Len(s) ELSE b
    IN  IF a >= hi THEN <<>> ELSE [i \in 1..(hi - a) |-> s[a + i]]

\* hex(num)[2:] for num >= 0, as hexadecimal digit values.
RECURSIVE HexDigits(_)
HexDigits(n) ==
    IF n < 16 THEN <<n>> ELSE HexDigits(n \div 16) \o <<n % 16>>

\* Python integers are unbounded and the checker's are 32 bits wide: every
\* value of 2^30 or more is held as Huge.  The accounts and entries of the
\* specifications below hold smaller numbers only.
Huge == 2^30

\* 16 * hi + d, held at Huge.
HexShift(hi, d) == IF hi >= Huge \div 16 THEN Huge ELSE 16 * hi + d

\* int(hexstr, 16) for a non-empty digit string (a run of zeros is 0).
RECURSIVE HexValue(_)
HexValue(h) ==
    IF \A i \in 1..Len(h) : h[i] = 0 THEN 0
    ELSE HexShift(HexValue(SubSeq(h, 1, Len(h) - 1)), h[Len(h)])

\* hexstr in '0123456789abcdef': hexstr is a run of consecutive digits.
InHexAlphabet(h) ==
    \E start \in 0..(16 - Len(h)) : \A j \in 1..Len(h) : h[j] = start + j - 1

\* b''.fromhex(hexstr) for an even number of digits.
FromHex(h) == [i \in 1..(Len(h) \div 2) |-> 16 * h[2 * i - 1] + h[2 * i]]

\* bytes([n]): one byte, or ValueError for n > 255
OneByte(n) == IF n < 256 THEN Ok(<<n>>) ELSE Raise("ValueError")

hex_to_bytes(hexstr) ==
    LET h == IF Len(hexstr) % 2 = 1 THEN <<0>> \o hexstr ELSE hexstr
    IN  IF ~InHexAlphabet(h) THEN Ok(FromHex(h)) ELSE OneByte(HexValue(h))

bytes_to_hex(byteseq) ==
    [i \in 1..(2 * Len(byteseq)) |->
        IF i % 2 = 1 THEN byteseq[(i + 1) \div 2] \div 16
                     ELSE byteseq[i \div 2] % 16]

num_to_bytes(num) == hex_to_bytes(HexDigits(num))

bytes_to_num(byteseq) ==
    IF Len(byteseq) = 0 THEN Raise("ValueError")   \* int('', 16)
    ELSE Ok(HexValue(bytes_to_hex(byteseq)))

\* bytes_fixlen with byteseq[-length:] for the longer sequences.
bytes_fixlen_tail(byteseq, length) ==
    IF Len(byteseq) > length
    THEN SubSeq(byteseq, Len(byteseq) - length + 1, Len(byteseq))
    ELSE Zeros(length - Len(byteseq)) \o byteseq

bytes_fixlen(byteseq, length) ==
    IF Len(byteseq) > length THEN SubSeq(byteseq, 1, length)
    ELSE Zeros(length - Len(byteseq)) \o byteseq

\* str.encode('utf-8') of one code point (lone surrogates are not in the
\* model's alphabets).
Utf8Char(c) ==
    IF c < 128 THEN <<c>>
    ELSE IF c < 2048 THEN <<192 + (c \div 64), 128 + (c % 64)>>
    ELSE IF c < 65536
    THEN <<224 + (c \div 4096), 128 + ((c \div 64) % 64), 128 + (c % 64)>>
    ELSE <<240 + (c \div 262144), 128 + ((c \div 4096) % 64),
           128 + ((c \div 64) % 64), 128 + (c % 64)>>

\* str.encode('utf-8'): ASCII text is its own encoding.
RECURSIVE Utf8Encode(_)
Utf8Encode(s) ==
    IF \A i \in 1..Len(s) : s[i] < 128 THEN s
    ELSE Utf8Char(Head(s)) \o Utf8Encode(Tail(s))

IsCont(b, i) == i <= Len(b) /\ b[i] >= 128 /\ b[i] <= 191

\* The strict UTF-8 decoder at byte i: the sequence length (0: malformed)
\* and the code point.
Utf8Step(b, i) ==
    LET b0 == b[i]
        b1 == b[i + 1]
        b2 == b[i + 2]
        b3 == b[i + 3]
    IN  IF b0 < 128 THEN [n |-> 1, cp |-> b0]
        ELSE IF b0 >= 194 /\ b0 <= 223 /\ IsCont(b, i + 1)
        THEN [n |-> 2, cp |-> (b0 - 192) * 64 + (b1 - 128)]
        ELSE IF /\ b0 >= 224 /\ b0 <= 239
                /\ IsCont(b, i + 1) /\ IsCont(b, i + 2)
                /\ (b0 = 224 => b1 >= 160)
                /\ (b0 = 237 => b1 <= 159)
        THEN [n |-> 3,
              cp |-> (b0 - 224) * 4096 + (b1 - 128) * 64 + (b2 - 128)]
        ELSE IF /\ b0 >= 240 /\ b0 <= 244
                /\ IsCont(b, i + 1) /\ IsCont(b, i + 2) /\ IsCont(b, i + 3)
                /\ (b0 = 240 => b1 >= 144)
                /\ (b0 = 244 => b1 <= 143)
        THEN [n |-> 4,
              cp |-> (b0 - 240) * 262144 + (b1 - 128) * 4096
                     + (b2 - 128) * 64 + (b3 - 128)]
        ELSE [n |-> 0, cp |-> 0]

\* The code point cp before the decoded rest.
Utf8Cons(cp, rest) == IF rest.err # "" THEN rest ELSE Ok(<<cp>> \o rest.v)

RECURSIVE Utf8From(_, _)

\* The decoding from byte i on, st being the decoder's step at i.
Utf8After(b, i, st) ==
    IF st.n = 0 THEN Raise("UnicodeDecodeError")
    ELSE Utf8Cons(st.cp, Utf8From(b, i + st.n))

Utf8From(b, i) ==
    IF i > Len(b) THEN Ok(<<>>) ELSE Utf8After(b, i, Utf8Step(b, i))

\* bytes.decode('utf-8'): ASCII bytes are their own decoding.
Utf8Decode(b) ==
    IF \A i \in 1..Len(b) : b[i] < 128 THEN Ok(b) ELSE Utf8From(b, 1)

\* str.strip('\x00'): from the first to the last character that is not NUL
StripNul(s) ==
    LET keep == {i \in 1..Len(s) : s[i] # 0}
        lo   == CHOOSE i \in keep : \A j \in keep : i <= j
        hi   == CHOOSE i \in keep : \A j \in keep : j <= i
    IN  IF keep = {} THEN <<>> ELSE SubSeq(s, lo, hi)

----------------------------------------------------------------------------
(* src/backend.py: Entry, and the entry list operations of Account.  An    *)
(* Entry object is a record; its id stands for the object's identity,      *)
(* which list.index compares (Entry defines no __eq__).                    *)

MaxEntries == 3

EntryIds == 1..(MaxEntries + 1)

NewEntry(id, title, entry, entry_num, t) ==
    [id |-> id, title |-> title, entry |-> entry, entry_num |-> entry_num,
     time_created |-> t, time_last_update |-> t]

\* list.index(entry): the first index holding the object, 0 when absent
\* (Python raises ValueError there).
IndexOf(es, id) ==
    IF \E i \in 1..Len(es) : es[i].id = id
    THEN CHOOSE i \in 1..Len(es) :
            es[i].id = id /\ \A j \in 1..(i - 1) : es[j].id # id
    ELSE 0

\* list.pop(index), 1-based.
Pop(es, i) == SubSeq(es, 1, i - 1) \o SubSeq(es, i + 1, Len(es))

\* list.insert that appends.
Insert_back(es, i, x) == Append(es, x)

\* list.insert(index, x), 1-based: x ends at position i.
Insert(es, i, x) == SubSeq(es, 1, i - 1) \o <<x>> \o SubSeq(es, i, Len(es))

Renum(e, d) == [e EXCEPT !.entry_num = e.entry_num + d]

add_entry(es, id, title, entry, t) ==
    Append(es, NewEntry(id, title, entry, Len(es), t))

\* del_entry without the loop that renumbers.
del_entry_pop(es, id) ==
    LET index == IndexOf(es, id)
    IN  IF index = 0 THEN Raise("ValueError") ELSE Ok(Pop(es, index))

del_entry(es, id) ==
    LET index == IndexOf(es, id)
        popped == Pop(es, index)
    IN  IF index = 0 THEN Raise("ValueError")
        ELSE Ok([e \in 1..Len(popped) |->
                    IF e >= index THEN Renum(popped[e], -1) ELSE popped[e]])

\* move_entry_up that leaves the entry it passes with its old entry_num.
move_entry_up_alone(es, id) ==
    LET index == IndexOf(es, id)
        moved == Renum(es[index], -1)
    IN  IF index = 0 THEN Raise("ValueError")
        ELSE IF index > 1
        THEN Ok(Insert(Pop(es, index), index - 1, moved))
        ELSE Ok(es)

move_entry_up(es, id) ==
    LET index == IndexOf(es, id)
        moved == Renum(es[index], -1)
        ins   == Insert(Pop(es, index), index - 1, moved)
    IN  IF index = 0 THEN Raise("ValueError")
        ELSE IF index > 1
        THEN Ok([ins EXCEPT ![index] = Renum(ins[index], 1)])
        ELSE Ok(es)

\* move_entry_down that leaves the entry it passes with its old entry_num.
move_entry_down_alone(es, id) ==
    LET index == IndexOf(es, id)
        moved == Renum(es[index], 1)
    IN  IF index = 0 THEN Raise("ValueError")
        ELSE IF index < Len(es)
        THEN Ok(Insert(Pop(es, index), index + 1, moved))
        ELSE Ok(es)

move_entry_down(es, id) ==
    LET index == IndexOf(es, id)
        moved == Renum(es[index], 1)
        ins   == Insert(Pop(es, index), index + 1, moved)
    IN  IF index = 0 THEN Raise("ValueError")
        ELSE IF index < Len(es)
        THEN Ok([ins EXCEPT ![index] = Renum(ins[index], -1)])
        ELSE Ok(es)

----------------------------------------------------------------------------
(* src/backend.py: Entry.dumps and Entry.loads.                            *)

\* The first exception among the results rs, "" when none raised.
FirstErr(rs) ==
    IF \A i \in 1..Len(rs) : rs[i].err = "" THEN ""
    ELSE rs[CHOOSE i \in 1..Len(rs) :
                rs[i].err # "" /\ \A j \in 1..(i - 1) : rs[j].err = ""].err

\* b''.join([title_len, title, entry_num, time_created, time_last_update,
\* entry]) of Entry.dumps, from the converted fields.
EntryJoin(title_len, title, entry_num, created, updated, entry) ==
    LET err == FirstErr(<<title_len, entry_num, created, updated>>)
    IN  IF err # "" THEN Raise(err)
        ELSE Ok(bytes_fixlen(title_len.v, 1) \o title
                \o bytes_fixlen(entry_num.v, 4)
                \o bytes_fixlen(created.v, 8)
                \o bytes_fixlen(updated.v, 8)
                \o entry)

EntryDumps(e) ==
    EntryJoin(num_to_bytes(Len(e.title)), Utf8Encode(e.title),
              num_to_bytes(e.entry_num), num_to_bytes(e.time_created),
              num_to_bytes(e.time_last_update), Utf8Encode(e.entry))

\* The Entry that Entry.loads makes from the fields it read; the new Entry
\* object gets the identity id.
EntryMake(id, title, entry_num, time_created, time_last_update, entry) ==
    LET err == FirstErr(<<title, entry_num, time_created,
                          time_last_update, entry>>)
    IN  IF err # "" THEN Raise(err)
        ELSE Ok([id |-> id, title |-> title.v, entry |-> entry.v,
                 entry_num |-> entry_num.v,
                 time_created |-> time_created.v,
                 time_last_update |-> time_last_update.v])

\* Entry.loads once title_len is read: r1 is where the title ends.
EntryLoadsFrom(raw_data, id, r1) ==
    EntryMake(id, Utf8Decode(Slice(raw_data, 1, r1)),
              bytes_to_num(Slice(raw_data, r1, r1 + 4)),
              bytes_to_num(Slice(raw_data, r1 + 4, r1 + 12)),
              bytes_to_num(Slice(raw_data, r1 + 12, r1 + 20)),
              Utf8Decode(Slice(raw_data, r1 + 20, Len(raw_data))))

EntryLoadsTitled(raw_data, id, title_len) ==
    IF title_len.err # "" THEN Raise(title_len.err)
    ELSE EntryLoadsFrom(raw_data, id, 1 + title_len.v)

EntryLoads(raw_data, id) ==
    EntryLoadsTitled(raw_data, id, bytes_to_num(Slice(raw_data, 0, 1)))

----------------------------------------------------------------------------
(* src/utils.py AESEncrypt and the key derivation of src/backend.py.       *)
(* sha256 is collision free and AES-CBC under a key is a permutation that  *)
(* only this key inverts: the digest of PEPPER + password + salt is the    *)
(* pair of its inputs, a 32-byte salt is a token, and a ciphertext is the  *)
(* pair of its key and its padded plaintext.  The random IV that precedes  *)
(* the ciphertext is part of that pair and is not modelled apart.          *)

DeriveKey(raw_password, salt) ==
    [pw |-> Utf8Encode(raw_password), salt |-> salt]

\* The 32 bytes of a digest, which Account.dumps stores and Account.loads
\* skips.
DigestBytes(key) == [i \in 1..32 |-> (7 * key.salt + Len(key.pw) + i) % 256]

\* AESEncrypt.__pad for bytes
AesPad(msg) ==
    LET n == 16 - (Len(msg) % 16) IN msg \o [i \in 1..n |-> n]

\* AESEncrypt.__unpad: msg[:-ord(msg[len(msg) - 1:])]
AesUnpad(msg) ==
    LET n == msg[Len(msg)]
    IN  IF n = 0 THEN <<>> ELSE Slice(msg, 0, Len(msg) - n)

\* A file: absent, or its bytes: none (zero length), or salt || IV ||
\* AES-CBC(key, padded).
NoFile == [kind |-> "absent", salt |-> 0, key |-> <<>>, padded |-> <<>>]

EmptyFile == [kind |-> "empty", salt |-> 0, key |-> <<>>, padded |-> <<>>]

DataFile(salt, key, padded) ==
    [kind |-> "data", salt |-> salt, key |-> key, padded |-> padded]

\* decrypt's return: result if len(result) > 0 else None
AesResult(result) ==
    IF Len(result) > 0 THEN [kind |-> "bytes", v |-> result]
    ELSE [kind |-> "None", v |-> <<>>]

\* AESEncrypt(key).decrypt(encrypted[32:]): the plaintext under the key
\* that encrypted it, and under any other key the bytes g, which the
\* caller draws from Garbage; None when unpadding leaves nothing.
AesDecrypt(key, file, g) ==
    AesResult(AesUnpad(IF key = file.key THEN file.padded ELSE g))

----------------------------------------------------------------------------
(* src/backend.py: Account.  An Account object is a record; oid stands for *)
(* the object's identity.  blank marks an object whose __init__ set no     *)
(* attribute.  The file system maps the sanitized file name to the file.   *)

\* bytes 32+32+8+2 of the header of the plaintext
HeaderLen == 32 + 32 + 8 + 2

\* ord of the characters of FILTEREDCHARS: \ / : * ? " < > | %
FILTEREDCHARS == {92, 47, 58, 42, 63, 34, 60, 62, 124, 37}

\* hex(n)[2:].upper(), as characters
RECURSIVE HexUpper(_)
HexUpper(h) ==
    IF Len(h) = 0 THEN <<>>
    ELSE <<IF Head(h) < 10 THEN 48 + Head(h) ELSE 55 + Head(h)>>
         \o HexUpper(Tail(h))

RECURSIVE sanitize_fname(_)
sanitize_fname(fname) ==
    IF Len(fname) = 0 THEN <<>>
    ELSE (IF Head(fname) \in FILTEREDCHARS
          THEN <<37>> \o HexUpper(HexDigits(Head(fname)))
          ELSE <<Head(fname)>>) \o sanitize_fname(Tail(fname))

BlankAccount(oid) ==
    [blank |-> TRUE, oid |-> oid, username |-> <<>>, salt |-> 0,
     password |-> <<>>, time_created |-> 0, entries |-> <<>>]

MakeAccount(oid, username, salt, password, time_created, es) ==
    [blank |-> FALSE, oid |-> oid, username |-> username, salt |-> salt,
     password |-> password, time_created |-> time_created, entries |-> es]

\* Account.checks_auth for a password that is not None; the file is read by
\* the caller.  "str" is the '' returned for no data.
checks_auth(encrypted_data, raw_password, g) ==
    IF encrypted_data.kind = "empty" THEN [kind |-> "str", v |-> <<>>]
    ELSE AesDecrypt(DeriveKey(raw_password, encrypted_data.salt),
                    encrypted_data, g)

\* check_auth once the file is looked up
CheckAuthFile(file, raw_password, g) ==
    IF file.kind = "absent" THEN [kind |-> "None", v |-> <<>>]
    ELSE checks_auth(file, raw_password, g)

check_auth(fs, username, raw_password, g) ==
    CheckAuthFile(fs[sanitize_fname(username)], raw_password, g)

\* entries.append(e), for the results of Entry.loads and of the rest of
\* the loop
EntriesCons(e, rest) ==
    IF e.err # "" THEN e
    ELSE IF rest.err # "" THEN rest
    ELSE Ok(<<e.v>> \o rest.v)

RECURSIVE LoadEntries(_, _, _, _)

\* One round of the loop of Account.loads, entry_size being read.
LoadEntry(raw_data, r, k, n, entry_size) ==
    IF entry_size.err # "" THEN entry_size
    ELSE EntriesCons(
             EntryLoads(Slice(raw_data, r + 3, r + 3 + entry_size.v), k),
             LoadEntries(raw_data, r + 3 + entry_size.v, k + 1, n - 1))

\* The loop of Account.loads over the entries, from offset r, with n
\* entries left; the k-th Entry object made gets identity k.
LoadEntries(raw_data, r, k, n) ==
    IF n = 0 THEN Ok(<<>>)
    ELSE LoadEntry(raw_data, r, k, n, bytes_to_num(Slice(raw_data, r, r + 3)))

\* The Account that Account.loads makes from the fields it read.
AccountMake(oid, salt, password, username, time_created, num_entries, es) ==
    LET err == FirstErr(<<username, time_created, num_entries, es>>)
    IN  IF err \in {"IndexError", "UnicodeDecodeError"}
        THEN Raise("InvalidAccountFormat")
        ELSE IF err # "" THEN Raise(err)
        ELSE Ok(MakeAccount(oid, StripNul(username.v), salt, password,
                            time_created.v, es.v))

\* The try block of Account.loads, num_entries being read.
AccountParse(raw_data, oid, salt, password, num_entries) ==
    AccountMake(oid, salt, password, Utf8Decode(Slice(raw_data, 0, 32)),
                bytes_to_num(Slice(raw_data, 64, 72)), num_entries,
                LoadEntries(raw_data, HeaderLen, 1, num_entries.v))

\* Account.loads after checks_auth returned raw.
AccountFrom(raw, raw_password, salt, oid) ==
    IF raw.kind = "None" THEN Raise("InvalidCredentials")
    ELSE IF Len(raw.v) < HeaderLen THEN Raise("InvalidAccountFormat")
    ELSE AccountParse(raw.v, oid, salt, DeriveKey(raw_password, salt),
                      bytes_to_num(Slice(raw.v, 72, 74)))

\* Account.loads that keeps the salt of the file.
AccountLoads_file_salt(encrypted_data, raw_password, g, salt, oid) ==
    AccountFrom(checks_auth(encrypted_data, raw_password, g), raw_password,
                encrypted_data.salt, oid)

\* Account.loads that draws the new salt and keeps the key derived under the
\* salt of the file.
AccountLoads_file_key(encrypted_data, raw_password, g, salt, oid) ==
    LET r == AccountFrom(checks_auth(encrypted_data, raw_password, g),
                         raw_password, salt, oid)
    IN  IF r.err # "" THEN r
        ELSE Ok([r.v EXCEPT
                    !.password = DeriveKey(raw_password, encrypted_data.salt)])

\* Account.loads: salt is the token_bytes(32) drawn, oid the identity of the
\* Account object made.
AccountLoads(encrypted_data, raw_password, g, salt, oid) ==
    AccountFrom(checks_auth(encrypted_data, raw_password, g), raw_password,
                salt, oid)

\* Account.load once open(filepath, 'rb') is tried
AccountLoadFile(file, raw_password, g, salt, oid) ==
    IF file.kind = "absent" THEN Raise("AccountNotFound")
    ELSE AccountLoads(file, raw_password, g, salt, oid)

AccountLoad(fs, username, raw_password, g, salt, oid) ==
    AccountLoadFile(fs[sanitize_fname(username)], raw_password, g, salt, oid)

\* [entry_sizes[i] + entries[i] for i in range(len(entries))], joined
RECURSIVE JoinEntries(_, _)
JoinEntries(sizes, raws) ==
    IF Len(raws) = 0 THEN <<>>
    ELSE bytes_fixlen(Head(sizes).v, 3) \o Head(raws).v
         \o JoinEntries(Tail(sizes), Tail(raws))

\* The end of Account.dumps: raw_data joined and encrypted behind the salt.
DumpsJoin(self, username, password, time_created, num_entries, raws, sizes) ==
    LET err1 == FirstErr(<<time_created, num_entries>> \o raws)
        err2 == FirstErr(sizes)
    IN  IF err1 # "" THEN Raise(err1)
        ELSE IF err2 # "" THEN Raise(err2)
        ELSE Ok(DataFile(self.salt, self.password,
                         AesPad(username \o password
                                \o bytes_fixlen(time_created.v, 8)
                                \o bytes_fixlen(num_entries.v, 2)
                                \o JoinEntries(sizes, raws))))

\* Account.dumps with the entries dumped.
DumpsEntries(self, raws) ==
    DumpsJoin(self, bytes_fixlen(Utf8Encode(self.username), 32),
              DigestBytes(self.password), num_to_bytes(self.time_created),
              num_to_bytes(Len(self.entries)), raws,
              [i \in 1..Len(raws) |-> num_to_bytes(Len(raws[i].v))])

AccountDumps(self) ==
    IF self.blank THEN Raise("AttributeError")
    ELSE DumpsEntries(self, [i \in 1..Len(self.entries) |->
                                EntryDumps(self.entries[i])])

\* file.write(self.dumps()) into the file that open(filepath, 'bw') has
\* emptied.
AccountWrite(fs, filepath, data) ==
    IF data.err # ""
    THEN [err |-> data.err, fs |-> [fs EXCEPT ![filepath] = EmptyFile]]
    ELSE [err |-> "", fs |-> [fs EXCEPT ![filepath] = data.v]]

\* Account.dump: the exception raised ("" for none) and the file system it
\* leaves.  open(filepath, 'bw') truncates the file before dumps runs.
AccountDump(fs, self) ==
    IF self.blank THEN [err |-> "AttributeError", fs |-> fs]
    ELSE AccountWrite(fs, sanitize_fname(self.username), AccountDumps(self))

\* Account.__init__(username, raw_password, overwrite) for strings; same
\* tells whether the two arguments are one object (username is
\* raw_password), which only equal strings can be.
AccountInit(fs, username, raw_password, overwrite, same, g, salt, oid, t) ==
    LET password   == DeriveKey(raw_password, salt)
        file       == fs[sanitize_fname(username)]
        acc_exists == file.kind # "absent"
        auth       == check_auth(fs, username, raw_password, g)
    IN  IF ~same THEN Ok(BlankAccount(oid))
        ELSE IF Len(Utf8Encode(username)) > 32 THEN Raise("InvalidUsername")
        ELSE IF ~overwrite /\ acc_exists
        THEN (IF auth.kind = "None" THEN Raise("InvalidAccountFormat")
              ELSE Raise("AccountExists"))
        ELSE Ok(MakeAccount(oid, username, salt, password, t, <<>>))

\* .dump() of the Account that Account(username, raw_password) made
DumpMade(fs, acc) ==
    IF acc.err # "" THEN [err |-> acc.err, fs |-> fs]
    ELSE AccountDump(fs, acc.v)

\* Account.create_account: Account(username, raw_password).dump()
create_account(fs, username, raw_password, same, g, salt, oid, t) ==
    DumpMade(fs, AccountInit(fs, username, raw_password, FALSE, same, g,
                             salt, oid, t))

\* Account.delete_account with utils.deletefile: open(fpath, 'bw') makes or
\* empties the file, remove unlinks it.
delete_account(fs, username) ==
    [fs EXCEPT ![sanitize_fname(username)] = NoFile]

----------------------------------------------------------------------------
(* src/backend.py: Session and SessionManager.  current_session is <<>>    *)
(* for None and <<account>> for a Session of that account.  The name       *)
(* create_session of the object resolves to the class's method, Method,    *)
(* or to a new_create_session closure that an override() stored in the     *)
(* object, Override; the closures all behave alike and stand for one       *)
(* value.                                                                  *)

MAX_FAILED_ATTEMPTS == 5

INIT_HARDLOCK_DELAY == 20

HARDLOCK_DELAY_INCR == 10

Method == "create_session"

Override == "new_create_session"

None == <<>>

Session(account) == <<account>>

\* SessionManager.__init__
NewSessionManager ==
    [current_session |-> None, session_hardlock |-> FALSE,
     failed_attempts |-> 0, hardlock_delay |-> INIT_HARDLOCK_DELAY,
     create_session |-> Method]

\* No thread: a slot for a thread of hardlock() that is not running.
NoTimer ==
    [pc |-> "unused", orig |-> Method, slept |-> 0, tmp |-> 0, k |-> 0]

HasFreeTimer(ts) == \E t \in DOMAIN ts : ts[t].pc = "unused"

Live(ts) == {t \in DOMAIN ts : ts[t].pc # "unused"}

\* hardlock(): Thread(target=override, daemon=True).start().  The thread is
\* the k-th started since the counters were last reset.
hardlock(ts, k) ==
    LET t == CHOOSE t \in DOMAIN ts :
                ts[t].pc = "unused" /\ \A s \in 1..(t - 1) : ts[s].pc # "unused"
    IN  [ts EXCEPT ![t] = [NoTimer EXCEPT !.pc = "capture", !.k = k]]

\* The except branches with > for >=.
LoginFailed_late(m) ==
    LET n == m.failed_attempts + 1
    IN  [mgr |-> [m EXCEPT !.failed_attempts = n],
         hardlock |-> n > MAX_FAILED_ATTEMPTS]

\* create_session, the two except branches: the manager they leave and
\* whether they call hardlock().
LoginFailed(m) ==
    LET n == m.failed_attempts + 1
    IN  [mgr |-> [m EXCEPT !.failed_attempts = n],
         hardlock |-> n >= MAX_FAILED_ATTEMPTS]

\* create_session after a load that returned.
LoginSucceeded(m, account) ==
    [m EXCEPT !.failed_attempts = 0,
              !.hardlock_delay = INIT_HARDLOCK_DELAY,
              !.current_session = Session(account)]

\* A call that ends with the exception e and leaves the manager as it is.
LoginQuiet(m, e, read) ==
    [out |-> e, read |-> read, mgr |-> m, hardlock |-> FALSE]

\* The except branches for the exception e, f being what they leave.
LoginCounted(e, f) ==
    [out |-> e, read |-> TRUE, mgr |-> f.mgr, hardlock |-> f.hardlock]

\* create_session from Account.load on, r being what the load gave.
LoginLoaded(m, r) ==
    IF r.err \in {"InvalidCredentials", "InvalidAccountFormat"}
    THEN LoginCounted(r.err, LoginFailed(m))
    ELSE IF r.err # "" THEN LoginQuiet(m, r.err, TRUE)
    ELSE [out |-> "", read |-> TRUE, mgr |-> LoginSucceeded(m, r.v),
          hardlock |-> FALSE]

\* The call self.create_session(username, raw_password) as one step of the
\* calling thread: the exception it ends with ("" for none), whether
\* Account.load ran, the manager it leaves and whether it called
\* hardlock().  g is what a decryption under a wrong key yields, salt and
\* oid belong to the Account that loads makes.
create_session(m, fs, username, raw_password, g, salt, oid) ==
    IF m.create_session # Method THEN LoginQuiet(m, "TooManyAttempts", FALSE)
    ELSE IF m.current_session # None
    THEN LoginQuiet(m, "SessionOngoing", FALSE)
    ELSE LoginLoaded(m, AccountLoad(fs, username, raw_password, g, salt, oid))

----------------------------------------------------------------------------
(* The inputs of the specifications.                                       *)

\* "a"
Usernames == {<<97>>}

\* "a" and "x"
Passwords == {<<97>>, <<120>>}

\* time_ns()
TimeValues == {1}

\* Bytes that a decryption under a wrong key can yield for a ciphertext of
\* len bytes: name fills the user name field, count is the low byte of the
\* entry count, last is the final byte, which __unpad reads as the padding.
MakeGarbage(len, name, count, last) ==
    [i \in 1..len |-> IF i = len THEN last
                      ELSE IF i <= 32 THEN name
                      ELSE IF i = HeaderLen THEN count
                      ELSE 0]

\* Padding 0 leaves nothing; padding len - HeaderLen leaves a bare header
\* and one byte more leaves less than a header; a name of 255s is no
\* UTF-8; a count of 1 announces an entry that is not there.
Garbage(len) ==
    {MakeGarbage(len, 65, 0, 0),
     MakeGarbage(len, 65, 0, len - HeaderLen),
     MakeGarbage(len, 65, 0, len - HeaderLen + 1),
     MakeGarbage(len, 255, 0, len - HeaderLen),
     MakeGarbage(len, 65, 1, len - HeaderLen)}

\* The user name that Account.loads reads from MakeGarbage(len, 65, ..).
GarbageName == [i \in 1..32 |-> 65]

\* 33 times "a": one byte more than a user name may have
LongName == [i \in 1..33 |-> 97]

FileNames ==
    {sanitize_fname(u) : u \in Usernames \cup {LongName}} \cup {GarbageName}

\* What the decryption of file under raw_password may yield besides the
\* plaintext.
GarbageOf(file, raw_password) ==
    IF file.kind = "data" /\ DeriveKey(raw_password, file.salt) # file.key
    THEN Garbage(Len(file.padded))
    ELSE {<<>>}

GarbageFor(fs, username, raw_password) ==
    GarbageOf(fs[sanitize_fname(username)], raw_password)

----------------------------------------------------------------------------
(* Spec: one thread (the user interface) calls the SessionManager and the  *)
(* Account class methods, each call one step; the timer threads of         *)
(* hardlock() run between the calls, one shared access a step.  A call is  *)
(* one step because the timer threads share with create_session only the   *)
(* attribute it is looked up by, read once as the call starts, and         *)
(* hardlock_delay, written once as it ends.                                *)

\* Threads of hardlock() alive at a time, Account objects that get a salt
\* in one behaviour, and calls of hardlock() between two resets of the
\* counters.
MaxTimers == 1

MaxAccounts == 2

MaxLocks == 2

CallerIds == 1..2

\* A thread that calls create_session: not in a call ("idle"), past the
\* check for a session with its arguments ("load"), back from Account.load
\* with what it gave ("loaded"), or in an except branch with
\* failed_attempts read ("count").
IdleCaller ==
    [pc |-> "idle", username |-> <<>>, raw_password |-> <<>>,
     res |-> Raise(""), tmp |-> 0]

NoEntryOp == [op |-> "init", id |-> 0, index |-> 0, err |-> ""]

\* The last step: the operation, the exception it ended with, whether
\* create_session read the file and called hardlock(), for a load the
\* password given and the Account returned, and for a create_account the
\* user name and the password given.
NoEvent ==
    [op |-> "init", out |-> "", read |-> FALSE, hardlock |-> FALSE,
     name |-> <<>>, arg |-> <<>>, ret |-> <<>>]

Event(op, out) == [NoEvent EXCEPT !.op = op, !.out = out]

Limits(nt, na, nl) == [timers |-> nt, accounts |-> na, locks |-> nl]

NoFiles == [n \in FileNames |-> NoFile]

\* The directory as an earlier run of the program left it: empty, or with
\* the file that create_account wrote for an account (salt 0, object 0).
Installed ==
    {NoFiles} \cup
    {create_account(NoFiles, u, u, TRUE, <<>>, 0, 0, t).fs :
        u \in Usernames, t \in TimeValues}

\* A process that has just made its SessionManager.
InitSession(l) ==
    /\ files \in Installed
    /\ mgr = NewSessionManager
    /\ timers = [t \in 1..l.timers |-> NoTimer]
    /\ callers = [c \in CallerIds |-> IdleCaller]
    /\ alloc = 0
    /\ lim = l
    /\ hist = [fails |-> 0, locks |-> 0]
    /\ wlog = {}
    /\ ev = NoEvent

Init ==
    /\ entries = <<>>
    /\ elast = NoEntryOp
    /\ InitSession(Limits(MaxTimers, MaxAccounts, MaxLocks))

\* The writes of account files so far: which Account object was written,
\* the salt at the head of the bytes that reached the file, and whether
\* this object and salt had been written before (nth = 2) or not (nth = 1).
Logged(log, d, username, oid) ==
    IF d.err # "" THEN log
    ELSE LET w == [oid |-> oid, salt |-> d.fs[sanitize_fname(username)].salt,
                   nth |-> 1]
         IN  IF w \in log THEN log \cup {[w EXCEPT !.nth = 2]}
             ELSE log \cup {w}

\* Account.create_account(username, raw_password)
CreateAccount(username, raw_password, same) ==
    \E g \in GarbageFor(files, username, raw_password), t \in TimeValues :
        \E d \in {create_account(files, username, raw_password, same, g,
                                 alloc + 1, alloc + 1, t)} :
            /\ same => username = raw_password
            /\ d.err = "" => alloc < lim.accounts
            /\ files' = d.fs
            /\ alloc' = IF d.err = "" THEN alloc + 1 ELSE alloc
            /\ wlog' = Logged(wlog, d, username, alloc + 1)
            /\ ev' = [Event("create", d.err) EXCEPT
                         !.name = username, !.arg = raw_password]
            /\ UNCHANGED <<evars, mgr, timers, callers, lim, hist>>

\* Account.delete_account(username)
DeleteAccount(username) ==
    /\ files' = delete_account(files, username)
    /\ ev' = Event("delete", "")
    /\ UNCHANGED <<evars, mgr, timers, callers, alloc, lim, hist, wlog>>

\* The history of failures and hardlock() calls after a create_session
\* call that ended with out.
Counted(out) == out \in {"InvalidCredentials", "InvalidAccountFormat"}

HistAfter(h, out, locked) ==
    IF out = "" THEN [fails |-> 0, locks |-> 0]
    ELSE [fails |-> h.fails + (IF Counted(out) THEN 1 ELSE 0),
          locks |-> h.locks + (IF locked THEN 1 ELSE 0)]

\* session_manager.create_session(username, raw_password)
Login(username, raw_password) ==
    \E g \in GarbageFor(files, username, raw_password) :
        \E r \in {create_session(mgr, files, username, raw_password, g,
                                 alloc + 1, alloc + 1)} :
            /\ r.out = "" => alloc < lim.accounts
            /\ r.hardlock => HasFreeTimer(timers) /\ hist.locks < lim.locks
            /\ mgr' = r.mgr
            /\ timers' = IF r.hardlock THEN hardlock(timers, hist.locks + 1)
                         ELSE timers
            /\ alloc' = IF r.out = "" THEN alloc + 1 ELSE alloc
            /\ hist' = HistAfter(hist, r.out, r.hardlock)
            /\ ev' = [Event("login", r.out) EXCEPT
                         !.read = r.read, !.hardlock = r.hardlock]
            /\ UNCHANGED <<evars, files, callers, lim, wlog>>

\* stop_session(): del self.current_session runs Session.__del__, which
\* dumps the account (an exception raised in __del__ is only printed).
stop_session(m) == [m EXCEPT !.current_session = None]

Logout ==
    /\ mgr' = stop_session(mgr)
    /\ IF mgr.current_session = None
       THEN /\ UNCHANGED <<files, wlog>>
            /\ ev' = Event("logout", "")
       ELSE \E account \in {mgr.current_session[1]} :
            \E d \in {AccountDump(files, account)} :
                /\ files' = d.fs
                /\ wlog' = Logged(wlog, d, account.username, account.oid)
                /\ ev' = Event("logout", "")
    /\ UNCHANGED <<evars, timers, callers, alloc, lim, hist>>

\* except AttributeError: raise NoSession
SaveOutcome(d) ==
    IF d.err = "AttributeError" THEN [d EXCEPT !.err = "NoSession"] ELSE d

\* save_account(): the exception and the file system.
save_account(m, fs) ==
    IF m.current_session = None THEN [err |-> "NoSession", fs |-> fs]
    ELSE SaveOutcome(AccountDump(fs, m.current_session[1]))

SaveAccount ==
    \E d \in {save_account(mgr, files)} :
        /\ files' = d.fs
        /\ wlog' = IF mgr.current_session = None THEN wlog
                   ELSE Logged(wlog, d, mgr.current_session[1].username,
                               mgr.current_session[1].oid)
        /\ ev' = Event("save", d.err)
        /\ UNCHANGED <<evars, mgr, timers, callers, alloc, lim, hist>>

\* The thread t of hardlock(), one shared access a step.  A local variable
\* is forgotten (set to 0) once the thread does not read it any more, and
\* so is the whole record as the thread ends.
TimerStep(t, from, to, m, timer) ==
    /\ timers[t].pc = from
    /\ timers' = [timers EXCEPT ![t] = [timer EXCEPT !.pc = to]]
    /\ mgr' = m
    /\ ev' = Event("timer", "")
    /\ UNCHANGED <<evars, files, callers, alloc, lim, hist, wlog>>

\* orig_create_session = self.create_session
TimerCapture(t) ==
    TimerStep(t, "capture", "install", mgr,
              [timers[t] EXCEPT !.orig = mgr.create_session])

\* self.create_session = new_create_session
TimerInstall(t) ==
    TimerStep(t, "install", "setflag",
              [mgr EXCEPT !.create_session = Override], timers[t])

\* self.session_hardlock = True
TimerSetFlag(t) ==
    TimerStep(t, "setflag", "sleepcall",
              [mgr EXCEPT !.session_hardlock = TRUE], timers[t])

\* sleep(self.hardlock_delay): the argument is read
TimerSleep(t) ==
    TimerStep(t, "sleepcall", "sleeping", mgr,
              [timers[t] EXCEPT !.slept = mgr.hardlock_delay])

\* sleep returns; self.hardlock_delay += ... reads the attribute
TimerWake(t) ==
    TimerStep(t, "sleeping", "writedelay", mgr,
              [timers[t] EXCEPT !.tmp = mgr.hardlock_delay,
                                !.slept = 0, !.k = 0])

\* self.hardlock_delay += ... writes it
TimerWriteDelay(t) ==
    TimerStep(t, "writedelay", "restore",
              [mgr EXCEPT !.hardlock_delay =
                              timers[t].tmp + HARDLOCK_DELAY_INCR],
              [timers[t] EXCEPT !.tmp = 0])

\* self.create_session = orig_create_session
TimerRestore(t) ==
    TimerStep(t, "restore", "clearflag",
              [mgr EXCEPT !.create_session = timers[t].orig],
              [timers[t] EXCEPT !.orig = Method])

\* self.session_hardlock = False; the thread ends
TimerClearFlag(t) ==
    TimerStep(t, "clearflag", "unused",
              [mgr EXCEPT !.session_hardlock = FALSE], NoTimer)

Timer ==
    \/ \E t \in DOMAIN timers : TimerCapture(t)
    \/ \E t \in DOMAIN timers : TimerInstall(t)
    \/ \E t \in DOMAIN timers : TimerSetFlag(t)
    \/ \E t \in DOMAIN timers : TimerSleep(t)
    \/ \E t \in DOMAIN timers : TimerWake(t)
    \/ \E t \in DOMAIN timers : TimerWriteDelay(t)
    \/ \E t \in DOMAIN timers : TimerRestore(t)
    \/ \E t \in DOMAIN timers : TimerClearFlag(t)

Calls ==
    \/ \E u \in Usernames, p \in Passwords, same \in BOOLEAN :
           CreateAccount(u, p, same)
    \/ \E u \in Usernames : DeleteAccount(u)
    \/ \E u \in Usernames, p \in Passwords : Login(u, p)
    \/ Logout
    \/ SaveAccount

Next == Calls \/ Timer

Spec == Init /\ [][Next]_vars

----------------------------------------------------------------------------
(* SpecFiles: the calls alone, short of the failure that would start a     *)
(* thread of hardlock().                                                   *)

FilesAccounts == 2

InitFiles ==
    /\ entries = <<>>
    /\ elast = NoEntryOp
    /\ InitSession(Limits(0, FilesAccounts, 0))

NextFiles == Calls

SpecFiles == InitFiles /\ [][NextFiles]_vars

----------------------------------------------------------------------------
(* SpecLoad: Account.load alone, on the file of an account that was saved  *)
(* under one of the passwords, with and without entries.                   *)

LoadAccounts == 2

SavedEntries ==
    {<<>>,
     <<NewEntry(1, <<116>>, <<98>>, 0, 1)>>,
     <<NewEntry(1, <<>>, <<>>, 0, 1)>>,
     <<NewEntry(1, <<116>>, <<98>>, 0, 1), NewEntry(2, <<>>, <<>>, 1, 1)>>}

Saved ==
    {AccountDump(NoFiles,
                 MakeAccount(0, u, 0, DeriveKey(p, 0), t, es)).fs :
        u \in Usernames, p \in Passwords, t \in TimeValues,
        es \in SavedEntries}

InitLoad ==
    /\ entries = <<>>
    /\ elast = NoEntryOp
    /\ files \in Saved
    /\ mgr = NewSessionManager
    /\ timers = <<>>
    /\ callers = [c \in CallerIds |-> IdleCaller]
    /\ alloc = 0
    /\ lim = Limits(0, LoadAccounts, 0)
    /\ hist = [fails |-> 0, locks |-> 0]
    /\ wlog = {}
    /\ ev = NoEvent

\* Account.load(username, raw_password)
Load(username, raw_password) ==
    \E g \in GarbageFor(files, username, raw_password) :
        \E r \in {AccountLoad(files, username, raw_password, g,
                              alloc + 1, alloc + 1)} :
            /\ r.err = "" => alloc < lim.accounts
            /\ alloc' = IF r.err = "" THEN alloc + 1 ELSE alloc
            /\ ev' = [Event("load", r.err) EXCEPT
                         !.arg = raw_password,
                         !.ret = IF r.err = "" THEN <<r.v>> ELSE <<>>]
            /\ UNCHANGED <<evars, files, mgr, timers, callers, lim, hist,
                           wlog>>

NextLoad == \E u \in Usernames, p \in Passwords : Load(u, p)

SpecLoad == InitLoad /\ [][NextLoad]_vars

----------------------------------------------------------------------------
(* SpecOverlap: two threads call create_session and a call is not one step *)
(* but four: the method is entered and checks for a session, Account.load  *)
(* runs, and the call ends, an except branch reading failed_attempts       *)
(* before it writes it.                                                    *)

OverlapAccounts == 2

InitOverlap ==
    /\ entries = <<>>
    /\ elast = NoEntryOp
    /\ InitSession(Limits(0, OverlapAccounts, 0))

\* self.create_session(username, raw_password) up to Account.load
CallEnter(c, username, raw_password) ==
    /\ callers[c].pc = "idle"
    /\ IF mgr.create_session # Method
       THEN /\ ev' = Event("login", "TooManyAttempts")
            /\ UNCHANGED callers
       ELSE IF mgr.current_session # None
       THEN /\ ev' = Event("login", "SessionOngoing")
            /\ UNCHANGED callers
       ELSE /\ ev' = Event("call", "")
            /\ callers' = [callers EXCEPT ![c] =
                               [IdleCaller EXCEPT
                                   !.pc = "load", !.username = username,
                                   !.raw_password = raw_password]]
    /\ UNCHANGED <<evars, files, mgr, timers, alloc, lim, hist, wlog>>

\* account = Account.load(username, raw_password)
CallLoad(c) ==
    /\ callers[c].pc = "load"
    /\ \E g \in GarbageFor(files, callers[c].username,
                            callers[c].raw_password) :
           \E r \in {AccountLoad(files, callers[c].username,
                                 callers[c].raw_password, g,
                                 alloc + 1, alloc + 1)} :
               /\ r.err = "" => alloc < lim.accounts
               /\ alloc' = IF r.err = "" THEN alloc + 1 ELSE alloc
               /\ callers' = [callers EXCEPT ![c] =
                                  [IdleCaller EXCEPT
                                      !.pc = "loaded", !.res = r]]
    /\ ev' = [Event("call", "") EXCEPT !.read = TRUE]
    /\ UNCHANGED <<evars, files, mgr, timers, lim, hist, wlog>>

\* The Session that self.current_session = Session(account) replaces loses
\* its last reference and Session.__del__ dumps its account.
Replaced(m, fs) ==
    IF m.current_session = None THEN [err |-> "", fs |-> fs]
    ELSE AccountDump(fs, m.current_session[1])

\* The call after Account.load: the exception is raised again, an except
\* branch reads failed_attempts, or the session is made.
CallFinish(c) ==
    /\ callers[c].pc = "loaded"
    /\ \E r \in {callers[c].res} :
           IF Counted(r.err)
           THEN /\ callers' = [callers EXCEPT ![c] =
                                   [@ EXCEPT !.pc = "count",
                                             !.tmp = mgr.failed_attempts]]
                /\ ev' = Event("call", "")
                /\ UNCHANGED <<files, mgr, hist, wlog>>
           ELSE IF r.err # ""
           THEN /\ callers' = [callers EXCEPT ![c] = IdleCaller]
                /\ ev' = [Event("login", r.err) EXCEPT !.read = TRUE]
                /\ hist' = HistAfter(hist, r.err, FALSE)
                /\ UNCHANGED <<files, mgr, wlog>>
           ELSE \E d \in {Replaced(mgr, files)} :
                /\ callers' = [callers EXCEPT ![c] = IdleCaller]
                /\ mgr' = LoginSucceeded(mgr, r.v)
                /\ files' = d.fs
                /\ wlog' = IF mgr.current_session = None THEN wlog
                           ELSE Logged(wlog, d,
                                       mgr.current_session[1].username,
                                       mgr.current_session[1].oid)
                /\ hist' = HistAfter(hist, "", FALSE)
                /\ ev' = [Event("login", "") EXCEPT !.read = TRUE]
    /\ UNCHANGED <<evars, timers, alloc, lim>>

\* self.failed_attempts += 1 writes the attribute; hardlock() at 5 or more
CallCount(c) ==
    /\ callers[c].pc = "count"
    /\ \E n \in {callers[c].tmp + 1} :
           /\ n >= MAX_FAILED_ATTEMPTS =>
                  HasFreeTimer(timers) /\ hist.locks < lim.locks
           /\ mgr' = [mgr EXCEPT !.failed_attempts = n]
           /\ timers' = IF n >= MAX_FAILED_ATTEMPTS
                        THEN hardlock(timers, hist.locks + 1) ELSE timers
           /\ hist' = HistAfter(hist, callers[c].res.err,
                                n >= MAX_FAILED_ATTEMPTS)
           /\ ev' = [Event("login", callers[c].res.err) EXCEPT
                        !.read = TRUE,
                        !.hardlock = n >= MAX_FAILED_ATTEMPTS]
    /\ callers' = [callers EXCEPT ![c] = IdleCaller]
    /\ UNCHANGED <<evars, files, alloc, lim, wlog>>

NextOverlap ==
    \/ \E c \in CallerIds, u \in Usernames, p \in Passwords :
           CallEnter(c, u, p)
    \/ \E c \in CallerIds : CallLoad(c)
    \/ \E c \in CallerIds : CallFinish(c)
    \/ \E c \in CallerIds : CallCount(c)
    \/ Logout

SpecOverlap == InitOverlap /\ [][NextOverlap]_vars

----------------------------------------------------------------------------
(* SpecLockout: the login screen alone.  The user logs in and out of an    *)
(* installation while the threads of hardlock() run; no account is         *)
(* created, deleted or saved.                                              *)

LockTimers == 1

LockAccounts == 1

LockLocks == 1

InitLockout ==
    /\ entries = <<>>
    /\ elast = NoEntryOp
    /\ InitSession(Limits(LockTimers, LockAccounts, LockLocks))

NextLockout ==
    \/ \E u \in Usernames, p \in Passwords : Login(u, p)
    \/ Logout
    \/ Timer

SpecLockout == InitLockout /\ [][NextLockout]_vars

----------------------------------------------------------------------------
(* SpecRace: the same screen with two threads of hardlock() alive at once. *)

RaceTimers == 2

RaceAccounts == 1

RaceLocks == 2

InitRace ==
    /\ entries = <<>>
    /\ elast = NoEntryOp
    /\ InitSession(Limits(RaceTimers, RaceAccounts, RaceLocks))

SpecRace == InitRace /\ [][NextLockout]_vars

----------------------------------------------------------------------------
(* SpecEntries: the entry list of one account under add_entry, del_entry,  *)
(* move_entry_up and move_entry_down.                                      *)

\* A list as Account.loads or a run of add_entry leaves it: entry i-1 of
\* the list carries entry_num i-1.
DenseList(n) == [i \in 1..n |-> NewEntry(i, <<>>, <<>>, i - 1, 1)]

FreeId(es) == CHOOSE id \in EntryIds : \A i \in 1..Len(es) : es[i].id # id

InitEntries ==
    /\ entries \in {DenseList(n) : n \in 0..MaxEntries}
    /\ elast = NoEntryOp
    /\ InitSession(Limits(0, 0, 0))

ApplyEntryOp(op, id, r) ==
    /\ entries' = IF r.err = "" THEN r.v ELSE entries
    /\ elast' = [op |-> op, id |-> id, index |-> IndexOf(entries, id),
                 err |-> r.err]
    /\ UNCHANGED svars

AddEntry ==
    /\ Len(entries) < MaxEntries
    /\ ApplyEntryOp("add", FreeId(entries),
                    Ok(add_entry(entries, FreeId(entries), <<>>, <<>>, 1)))

DelEntry == \E id \in EntryIds : ApplyEntryOp("del", id, del_entry(entries, id))

MoveEntryUp ==
    \E id \in EntryIds : ApplyEntryOp("up", id, move_entry_up(entries, id))

MoveEntryDown ==
    \E id \in EntryIds : ApplyEntryOp("down", id, move_entry_down(entries, id))

NextEntries == AddEntry \/ DelEntry \/ MoveEntryUp \/ MoveEntryDown

SpecEntries == InitEntries /\ [][NextEntries]_vars

----------------------------------------------------------------------------
(* SpecEntryCodec: Entry.loads(e.dumps()) for an Entry e, which entries    *)
(* holds alone.  The titles are "", "t", "tt", U+00E9, twice U+00E9,       *)
(* "t" and U+00E9, and U+65E5; the bodies "", "b" and U+00E9.              *)

CodecTitles ==
    {<<>>, <<116>>, <<116, 116>>, <<233>>, <<233, 233>>, <<116, 233>>,
     <<26085>>}

CodecBodies == {<<>>, <<98>>, <<233>>}

\* entry_num: 291 is 0x123
CodecNums == {0, 1, 291}

\* A state of every variable but entries, elast and alloc, with the files
\* fs, the SessionManager m and the bounds l.
InitWith(fs, m, l) ==
    /\ files = fs
    /\ mgr = m
    /\ timers = [t \in 1..l.timers |-> NoTimer]
    /\ callers = [c \in CallerIds |-> IdleCaller]
    /\ lim = l
    /\ hist = [fails |-> 0, locks |-> 0]
    /\ wlog = {}
    /\ ev = NoEvent

InitEntryCodec ==
    /\ entries \in {<<NewEntry(1, title, entry, n, t)>> :
                       title \in CodecTitles, entry \in CodecBodies,
                       n \in CodecNums, t \in TimeValues}
    /\ elast = NoEntryOp
    /\ alloc = 0
    /\ InitWith(NoFiles, NewSessionManager, Limits(0, 0, 0))

\* Entry.loads of what dumps returned; the Entry object made has identity 2
LoadsDumped(d) == IF d.err # "" THEN d ELSE EntryLoads(d.v, 2)

\* What a call returned, or <<>> when it raised
Returned(r) == IF r.err = "" THEN <<r.v>> ELSE <<>>

EntryRoundTrip ==
    \E r \in {LoadsDumped(EntryDumps(entries[1]))} :
        /\ ev' = [Event("entry", r.err) EXCEPT !.ret = Returned(r)]
        /\ UNCHANGED <<evars, files, mgr, timers, callers, alloc, lim, hist,
                       wlog>>

SpecEntryCodec == InitEntryCodec /\ [][EntryRoundTrip]_vars

----------------------------------------------------------------------------
(* SpecRoundTrip: Account.loads(account.dumps(), raw_password) for the     *)
(* account of the session, whose file holds what it last saved.  The       *)
(* user names are "a" and 32 times "A".                                    *)

RoundTripNames == {<<97>>, GarbageName}

RoundTripEntries ==
    {<<>>,
     <<NewEntry(1, <<116>>, <<98>>, 0, 1)>>,
     <<NewEntry(1, <<116>>, <<98>>, 0, 1), NewEntry(2, <<>>, <<>>, 1, 1)>>,
     <<NewEntry(1, <<233>>, <<98>>, 0, 1)>>,
     <<NewEntry(1, <<116>>, <<233>>, 0, 1)>>,
     <<NewEntry(1, <<116>>, <<98>>, 0, 1),
       NewEntry(2, <<233, 233>>, <<98>>, 1, 1)>>}

RoundTripAccounts ==
    {MakeAccount(0, u, 0, DeriveKey(p, 0), t, es) :
        u \in RoundTripNames, p \in Passwords, t \in TimeValues,
        es \in RoundTripEntries}

InitRoundTrip ==
    /\ entries = <<>>
    /\ elast = NoEntryOp
    /\ alloc = 0
    /\ \E account \in RoundTripAccounts :
           InitWith(AccountDump(NoFiles, account).fs,
                    [NewSessionManager EXCEPT
                        !.current_session = Session(account)],
                    Limits(0, 0, 0))

\* Account.loads(encrypted_data, raw_password) of what dumps returned
AccountLoadsDumped(d, raw_password, g) ==
    IF d.err # "" THEN d ELSE AccountLoads(d.v, raw_password, g, 1, 1)

RoundTrip(raw_password) ==
    \E d \in {AccountDumps(mgr.current_session[1])} :
        \E g \in (IF d.err # "" THEN {<<>>} ELSE GarbageOf(d.v, raw_password)) :
            \E r \in {AccountLoadsDumped(d, raw_password, g)} :
                /\ ev' = [Event("roundtrip", r.err) EXCEPT
                             !.arg = raw_password, !.ret = Returned(r)]
                /\ UNCHANGED <<evars, files, mgr, timers, callers, alloc,
                               lim, hist, wlog>>

NextRoundTrip == \E p \in Passwords : RoundTrip(p)

SpecRoundTrip == InitRoundTrip /\ [][NextRoundTrip]_vars

----------------------------------------------------------------------------
(* SpecSignup: the sign-up screen alone.  Accounts are created and deleted *)
(* under the user names "a", 32 times "A" and 33 times "a", with the user  *)
(* name or "x" as the password, the two arguments being one object or two. *)

SignupAccounts == 2

SignupNames == Usernames \cup {GarbageName, LongName}

InitSignup ==
    /\ entries = <<>>
    /\ elast = NoEntryOp
    /\ InitSession(Limits(0, SignupAccounts, 0))

NextSignup ==
    \/ \E u \in SignupNames, p \in SignupNames \cup Passwords :
           \E same \in BOOLEAN : CreateAccount(u, p, same)
    \/ \E u \in SignupNames : DeleteAccount(u)

SpecSignup == InitSignup /\ [][NextSignup]_vars

----------------------------------------------------------------------------
(* SpecFormat: Account.load and create_session, with the password of the   *)
(* file, on an account file whose decryption is a given plaintext.         *)

FormatAccounts == 1

\* "a"
FormatPassword == <<97>>

\* A plaintext: 32 bytes name, 32 bytes of digest, time_created 1, the entry
\* count, and tail.
MakePlain(name, count, tail) ==
    [i \in 1..32 |-> name] \o Zeros(32) \o <<0, 0, 0, 0, 0, 0, 0, 1>>
        \o <<0, count>> \o tail

\* What Entry.dumps gives for the title "t" and the body "b", position 0 and
\* timestamps 1: 23 bytes; t and b stand in for the bytes of title and body.
RawEntry(t, b) ==
    <<1, t>> \o <<0, 0, 0, 0>> \o <<0, 0, 0, 0, 0, 0, 0, 1>>
        \o <<0, 0, 0, 0, 0, 0, 0, 1>> \o <<b>>

\* Plaintexts that Account.dumps makes: no entry, one entry.
WellFormed ==
    {MakePlain(65, 0, <<>>),
     MakePlain(65, 1, <<0, 0, 23>> \o RawEntry(116, 98))}

\* Less than the 74 bytes of the header
TooShort == {<<>>, <<65>>, SubSeq(MakePlain(65, 0, <<>>), 1, HeaderLen - 1)}

\* The entry count or an entry length runs past the end: one entry
\* announced and none there, or two bytes of its length only, or its length
\* given as 30 or as 23 with 12 bytes there, or two announced and one there.
Overrun ==
    {MakePlain(65, 1, <<>>),
     MakePlain(65, 1, <<0, 0>>),
     MakePlain(65, 1, <<0, 0, 30>> \o RawEntry(116, 98)),
     MakePlain(65, 1, <<0, 0, 23>> \o SubSeq(RawEntry(116, 98), 1, 12)),
     MakePlain(65, 2, <<0, 0, 23>> \o RawEntry(116, 98))}

\* A user name, a title or a body that is not UTF-8 (a byte 255)
NotUtf8 ==
    {MakePlain(255, 0, <<>>),
     MakePlain(65, 1, <<0, 0, 23>> \o RawEntry(255, 98)),
     MakePlain(65, 1, <<0, 0, 23>> \o RawEntry(116, 255))}

Malformed == TooShort \cup Overrun \cup NotUtf8

InitFormat ==
    /\ entries = <<>>
    /\ elast = NoEntryOp
    /\ alloc = 0
    /\ \E plain \in WellFormed \cup Malformed, u \in Usernames :
           InitWith([NoFiles EXCEPT ![sanitize_fname(u)] =
                        DataFile(0, DeriveKey(FormatPassword, 0),
                                 AesPad(plain))],
                    NewSessionManager, Limits(0, FormatAccounts, 0))

NextFormat ==
    \/ \E u \in Usernames : Load(u, FormatPassword)
    \/ \E u \in Usernames : Login(u, FormatPassword)
    \/ Logout

SpecFormat == InitFormat /\ [][NextFormat]_vars

----------------------------------------------------------------------------
(* SpecStore: accounts are created, deleted, logged into, given entries,   *)
(* saved and logged out of, each call one step.  The titles are "t" and    *)
(* U+00E9, the bodies "b" and 269 times "b", with which Entry.dumps gives  *)
(* 291 bytes for the title "t".                                            *)

StoreAccounts == 2

StoreEntries == 1

StoreTitles == {<<116>>, <<233>>}

StoreBodies == {<<98>>, [i \in 1..269 |-> 98]}

InitStore ==
    /\ entries = <<>>
    /\ elast = NoEntryOp
    /\ InitSession(Limits(0, StoreAccounts, 0))

\* Session.add_new_entry(title, entry): self.account.add_entry(title, entry)
add_new_entry(account, title, entry, t) ==
    [account EXCEPT !.entries =
        add_entry(account.entries, FreeId(account.entries), title, entry, t)]

\* current_session.add_new_entry(title, entry) while a session is active
AddNewEntry(title, entry) ==
    /\ mgr.current_session # None
    /\ Len(mgr.current_session[1].entries) < StoreEntries
    /\ \E t \in TimeValues :
           mgr' = [mgr EXCEPT !.current_session =
                      Session(add_new_entry(mgr.current_session[1], title,
                                            entry, t))]
    /\ ev' = Event("add", "")
    /\ UNCHANGED <<evars, files, timers, callers, alloc, lim, hist, wlog>>

NextStore ==
    \/ \E u \in Usernames, same \in BOOLEAN : CreateAccount(u, u, same)
    \/ \E u \in Usernames : DeleteAccount(u)
    \/ \E u \in Usernames, p \in Passwords : Login(u, p)
    \/ \E title \in StoreTitles, entry \in StoreBodies :
           AddNewEntry(title, entry)
    \/ SaveAccount
    \/ Logout

SpecStore == InitStore /\ [][NextStore]_vars

----------------------------------------------------------------------------
(* SpecKeys: the life of the keys and salts of Account objects: accounts   *)
(* are created and deleted, logged in to with the right and with another   *)
(* password, given an entry ("t", "b"), saved and logged out of, each call *)
(* one step.                                                               *)

KeyAccounts == 2

InitKeys ==
    /\ entries = <<>>
    /\ elast = NoEntryOp
    /\ InitSession(Limits(0, KeyAccounts, 0))

NextKeys ==
    \/ \E u \in Usernames, same \in BOOLEAN : CreateAccount(u, u, same)
    \/ \E u \in Usernames : DeleteAccount(u)
    \/ \E u \in Usernames, p \in Passwords : Login(u, p)
    \/ AddNewEntry(<<116>>, <<98>>)
    \/ SaveAccount
    \/ Logout

SpecKeys == InitKeys /\ [][NextKeys]_vars

----------------------------------------------------------------------------
(* SpecCodec: the byte and number conversions of src/utils.py as functions *)
(* of their arguments.  A state holds one argument tuple <<byteseq,        *)
(* length, num>> in ev.arg; each step applies one of the conversions to    *)
(* its part of the tuple and records what the call returned or raised.     *)

CodecLen == 3

CodecMax == 300

\* The byte values of the sequences: 0x00, 0x01 and 0x23.
CodecByteValues == {0, 1, 35}

CodecByteSeqs ==
    UNION {[1..n -> CodecByteValues] : n \in 0..CodecLen}

\* 0 .. CodecMax (0x123 = 291 among them) and 0x1234.
CodecNumbers == 0..CodecMax \cup {4660}

InitCodec ==
    /\ entries = <<>>
    /\ elast = NoEntryOp
    /\ alloc = 0
    /\ files = NoFiles
    /\ mgr = NewSessionManager
    /\ timers = <<>>
    /\ callers = [c \in CallerIds |-> IdleCaller]
    /\ lim = Limits(0, 0, 0)
    /\ hist = [fails |-> 0, locks |-> 0]
    /\ wlog = {}
    /\ \E a \in {<<b, n, 0>> : b \in CodecByteSeqs, n \in 0..CodecLen}
                  \cup {<<(<<>>), 0, num>> : num \in CodecNumbers} :
           ev = [NoEvent EXCEPT !.arg = a]

\* The record of a call op of the codec that returned or raised r.
CodecCall(op, r) == [ev EXCEPT !.op = op, !.out = r.err, !.ret = Returned(r)]

BytesFixlen ==
    /\ ev' = CodecCall("bytes_fixlen",
                       Ok(bytes_fixlen(ev.arg[1], ev.arg[2])))
    /\ UNCHANGED <<evars, files, mgr, timers, callers, alloc, lim, hist,
                   wlog>>

NumToBytes ==
    /\ ev' = CodecCall("num_to_bytes", num_to_bytes(ev.arg[3]))
    /\ UNCHANGED <<evars, files, mgr, timers, callers, alloc, lim, hist,
                   wlog>>

BytesToNum ==
    /\ ev' = CodecCall("bytes_to_num", bytes_to_num(ev.arg[1]))
    /\ UNCHANGED <<evars, files, mgr, timers, callers, alloc, lim, hist,
                   wlog>>

NextCodec == BytesFixlen \/ NumToBytes \/ BytesToNum

SpecCodec == InitCodec /\ [][NextCodec]_vars

----------------------------------------------------------------------------
(* C1: after any sequence of add_entry, del_entry, move_entry_up and       *)
(* move_entry_down, from an empty or a dense list, the entry at list index *)
(* i stores position i, for every i in 0..N-1.                             *)
C1_PositionsDense ==
    \A i \in 1..Len(entries) : entries[i].entry_num = i - 1

\* A move has exchanged two entries of a list of three and the list is
\* no longer in the order it was built in.
C1_Witness ==
    /\ elast.op \in {"up", "down"} /\ elast.err = ""
    /\ Len(entries) = MaxEntries
    /\ \E i \in 1..Len(entries) : entries[i].id # i

----------------------------------------------------------------------------
(* C2: from a fresh SessionManager or from the state just after a          *)
(* successful login, hardlock() is called exactly by the login attempts    *)
(* that fail with InvalidCredentials or InvalidAccountFormat and find the  *)
(* counter at 5 or more, the fifth such failure being the first; each such *)
(* failure adds one to failed_attempts, and an attempt that ends in        *)
(* AccountNotFound, SessionOngoing or anything else leaves the counter as  *)
(* it is and calls no hardlock().  hist.fails counts the failures since    *)
(* the manager was made or a login succeeded, hist.locks the calls of      *)
(* hardlock() since then.                                                  *)
C2_LockoutAtFifthFailure ==
    /\ mgr.failed_attempts = hist.fails
    /\ hist.locks >= 1 <=> hist.fails >= MAX_FAILED_ATTEMPTS
    /\ ev.op = "login" =>
           (ev.hardlock <=>
                Counted(ev.out) /\ hist.fails >= MAX_FAILED_ATTEMPTS)

\* The fifth failure after a successful login has just called hardlock().
C2_Witness ==
    /\ ev.op = "login" /\ ev.hardlock
    /\ hist.fails = MAX_FAILED_ATTEMPTS
    /\ alloc >= 1

----------------------------------------------------------------------------
\* A thread of hardlock() that has been started and has not yet returned
\* from its sleep: the threshold was reached and the cooldown is not over.
CoolingDown(ts) ==
    \E t \in DOMAIN ts :
        ts[t].pc \in {"capture", "install", "setflag", "sleepcall", "sleeping"}

(* C3: from the return of the login attempt that reached the threshold     *)
(* until the cooldown is over, every login attempt fails with              *)
(* TooManyAttempts, reads no file and leaves failed_attempts as it is, in  *)
(* every interleaving of the caller with the thread of hardlock().         *)
C3_RejectedWhileCoolingDown ==
    [][(ev'.op = "login" /\ CoolingDown(timers))
          => (/\ ev'.out = "TooManyAttempts"
              /\ ~ev'.read
              /\ mgr'.failed_attempts = mgr.failed_attempts)]_vars

----------------------------------------------------------------------------
(* C4: every lockout lifts on its own: once the threads of hardlock() have *)
(* run to completion, create_session is the method of the class again (a   *)
(* login is evaluated against the account file) and session_hardlock is    *)
(* false, whatever the login attempts and the interleaving were.           *)
C4_LockoutLifts ==
    Live(timers) = {} =>
        (mgr.create_session = Method /\ ~mgr.session_hardlock)

----------------------------------------------------------------------------
(* C6: a login while a session is active fails with SessionOngoing and     *)
(* leaves the session, failed_attempts, hardlock_delay and the account     *)
(* files as they are.                                                      *)
C6_SessionOngoing ==
    [][(ev'.op = "login" /\ mgr.current_session # None)
          => (/\ ev'.out = "SessionOngoing"
              /\ mgr'.current_session = mgr.current_session
              /\ mgr'.failed_attempts = mgr.failed_attempts
              /\ mgr'.hardlock_delay = mgr.hardlock_delay
              /\ files' = files)]_vars

----------------------------------------------------------------------------
(* C7: a successful login leaves failed_attempts 0, hardlock_delay 20 and  *)
(* the loaded account as the current session; the next call of hardlock()  *)
(* after it comes with the fifth new failure and its thread sleeps 20.     *)
C7_SuccessResets ==
    /\ (ev.op = "login" /\ ev.out = "") =>
           /\ mgr.failed_attempts = 0
           /\ mgr.hardlock_delay = INIT_HARDLOCK_DELAY
           /\ mgr.current_session # None
    /\ (ev.op = "login" /\ ev.hardlock /\ hist.locks = 1) =>
           hist.fails = MAX_FAILED_ATTEMPTS
    /\ \A t \in DOMAIN timers :
           (timers[t].pc = "sleeping" /\ timers[t].k = 1) =>
               timers[t].slept = INIT_HARDLOCK_DELAY

----------------------------------------------------------------------------
(* C8: with no successful login in between, the thread of the k-th call of *)
(* hardlock() sleeps 20 + 10 * (k - 1).                                    *)
C8_CooldownGrowsByTen ==
    \A t \in DOMAIN timers :
        timers[t].pc = "sleeping" =>
            timers[t].slept =
                INIT_HARDLOCK_DELAY + HARDLOCK_DELAY_INCR * (timers[t].k - 1)

----------------------------------------------------------------------------
(* C5: two create_session calls that overlap never both establish a        *)
(* session: once current_session is set, it stays the same Session until   *)
(* a logout, and no login replaces it.                                     *)
C5_OneSession ==
    [][(mgr.current_session # None /\ mgr'.current_session # None)
          => mgr'.current_session = mgr.current_session]_vars

----------------------------------------------------------------------------
(* C9: Account.load of an existing account file with a password other than *)
(* the one the file was saved under never returns an Account: it raises    *)
(* InvalidCredentials or InvalidAccountFormat, whatever bytes the          *)
(* decryption under the wrong key yields.                                  *)
C9_WrongPasswordRejected ==
    \A u \in Usernames :
        (/\ ev.op = "load"
         /\ files[sanitize_fname(u)].kind = "data"
         /\ files[sanitize_fname(u)].key.pw # Utf8Encode(ev.arg))
        => ev.out \in {"InvalidCredentials", "InvalidAccountFormat"}

----------------------------------------------------------------------------
(* C10 as the specification states it: no two writes of an account file    *)
(* carry the same salt, two saves in one session included.                 *)
C10_FreshSaltEveryWrite ==
    \A w1 \in wlog, w2 \in wlog : w1 # w2 => w1.salt # w2.salt

(* C10, amended: the salt is drawn when the Account object is made, by     *)
(* __init__ or by loads, and never by dumps: the writes of one Account     *)
(* object all carry the salt of the object, and the writes of two Account  *)
(* objects carry different salts.                                          *)
C10_SaltPerObject ==
    \A w1 \in wlog, w2 \in wlog : (w1.salt = w2.salt) <=> (w1.oid = w2.oid)

\* An Account object has been written twice and another one once.
C10_Witness ==
    \E w1 \in wlog, w2 \in wlog :
        w1.nth = 2 /\ w2.nth = 1 /\ w1.oid # w2.oid

----------------------------------------------------------------------------
\* Two Entry objects with the same title, body, position and timestamps.
SameEntry(e1, e2) ==
    /\ e1.title = e2.title
    /\ e1.entry = e2.entry
    /\ e1.entry_num = e2.entry_num
    /\ e1.time_created = e2.time_created
    /\ e1.time_last_update = e2.time_last_update

\* Two Account objects with the same user name, creation time and entries.
SameAccount(a1, a2) ==
    /\ a1.username = a2.username
    /\ a1.time_created = a2.time_created
    /\ Len(a1.entries) = Len(a2.entries)
    /\ \A i \in 1..Len(a1.entries) : SameEntry(a1.entries[i], a2.entries[i])

(* C11: loading what an account dumps, with the password of the account,   *)
(* returns an account with the same user name, the same creation time and  *)
(* the same entries (title, body, position, timestamps) in the same order. *)
C11_AccountRoundTrip ==
    (/\ ev.op = "roundtrip"
     /\ Utf8Encode(ev.arg) = mgr.current_session[1].password.pw)
    => /\ ev.out = ""
       /\ SameAccount(ev.ret[1], mgr.current_session[1])

----------------------------------------------------------------------------
(* C20: for an Entry with a title of at most 255 UTF-8 bytes, ASCII or     *)
(* not, any body and any position below 2^32, Entry.loads of what dumps    *)
(* returns yields the same title, body, position, created_at and           *)
(* updated_at.                                                             *)
C20_EntryRoundTrip ==
    ev.op = "entry" => ev.out = "" /\ SameEntry(ev.ret[1], entries[1])

----------------------------------------------------------------------------
\* The file that create_account(ev'.name, ..) is about, before the call.
CreatedFile == files[sanitize_fname(ev'.name)]

(* C12: create_account(username, password) with a user name of at most 32  *)
(* UTF-8 bytes and any password, when no file exists for the user name,    *)
(* completes without error and leaves an account file for the user name.   *)
C12_CreateSucceeds ==
    [][(/\ ev'.op = "create"
        /\ Len(Utf8Encode(ev'.name)) <= 32
        /\ CreatedFile.kind = "absent")
       => /\ ev'.out = ""
          /\ files'[sanitize_fname(ev'.name)].kind = "data"]_vars

(* C13: create_account when a file exists for the user name fails and      *)
(* leaves the files as they are: with AccountExists when the file is an    *)
(* account under the password given, with InvalidAccountFormat when the    *)
(* file is empty or was written under another password.                    *)
C13_CreateOnExisting ==
    [][(/\ ev'.op = "create"
        /\ Len(Utf8Encode(ev'.name)) <= 32
        /\ CreatedFile.kind # "absent")
       => /\ files' = files
          /\ ev'.out = IF /\ CreatedFile.kind = "data"
                          /\ CreatedFile.key
                                 = DeriveKey(ev'.arg, CreatedFile.salt)
                       THEN "AccountExists" ELSE "InvalidAccountFormat"]_vars

(* C14: create_account with a user name of more than 32 UTF-8 bytes fails  *)
(* with InvalidUsername for every password and changes no file.            *)
C14_LongUsername ==
    [][(ev'.op = "create" /\ Len(Utf8Encode(ev'.name)) > 32)
       => ev'.out = "InvalidUsername" /\ files' = files]_vars

----------------------------------------------------------------------------
(* C15: when the decryption of the account file yields a plaintext shorter *)
(* than 74 bytes, or one whose entry count or entry lengths run past its   *)
(* end, or one whose user name, title or body is not UTF-8, Account.load   *)
(* and create_session raise InvalidAccountFormat and nothing else, and     *)
(* create_session counts a failed attempt.                                 *)
C15_MalformedPlaintext ==
    \A u \in Usernames :
        (/\ ev.op \in {"load", "login"}
         /\ files[sanitize_fname(u)].kind = "data"
         /\ AesUnpad(files[sanitize_fname(u)].padded) \in Malformed)
        => /\ ev.out = "InvalidAccountFormat"
           /\ ev.op = "login" => mgr.failed_attempts > 0

----------------------------------------------------------------------------
\* The Account of the session before the step.
Active == mgr.current_session[1]

\* Account.loads of file with the password of account (its bytes, the
\* passwords being ASCII), as a later login would do it.
Decoded(file, account) ==
    AccountLoadFile(file, account.password.pw, <<>>, 0, 0)

(* C16: stop_session() with a session writes the account as it is in       *)
(* memory to its file and clears the session: afterwards there is no       *)
(* session and the file decodes, with the password of the account, to the  *)
(* user name, creation time and entries the account had; stop_session()    *)
(* with no session changes nothing.                                        *)
C16_LogoutPersists ==
    [][ev'.op = "logout"
       => /\ mgr'.current_session = None
          /\ mgr.current_session = None => (files' = files /\ mgr' = mgr)
          /\ mgr.current_session # None =>
                 \E r \in {Decoded(files'[sanitize_fname(Active.username)],
                                   Active)} :
                     r.err = "" /\ SameAccount(r.v, Active)]_vars

(* C17: save_account() with no session raises NoSession and writes         *)
(* nothing; with a session it writes the account of the session to its    *)
(* file.                                                                   *)
C17_SaveCurrent ==
    [][ev'.op = "save"
       => /\ mgr.current_session = None =>
                 (ev'.out = "NoSession" /\ files' = files)
          /\ mgr.current_session # None =>
                 /\ ev'.out = ""
                 /\ files'[sanitize_fname(Active.username)]
                        = AccountDumps(Active).v]_vars

(* C18: an account file is never empty or partial, whether a save went     *)
(* through or failed part-way: it holds the bytes of a complete            *)
(* serialization.                                                          *)
C18_NoEmptyFile ==
    \A n \in FileNames : files[n].kind # "empty"

(* C19: once the file of user u is absent it stays absent until            *)
(* create_account(u, ..) is called - no save or logout brings it back -    *)
(* and create_session(u, ..) that reads it raises AccountNotFound.         *)
C19_StaysDeleted ==
    [][\A u \in Usernames :
          files[sanitize_fname(u)].kind = "absent"
          => /\ files'[sanitize_fname(u)].kind # "absent"
                    => ev'.op = "create"
             /\ (ev'.op = "login" /\ ev'.read)
                    => ev'.out = "AccountNotFound"]_vars

----------------------------------------------------------------------------
\* The step was a call of op on an entry of the list that returned; the
\* entry was at list index elast'.index (from 1).
Called(op) == elast'.op = op /\ elast'.err = "" /\ elast'.index > 0

\* The list after the step holds the objects of the list before it, those
\* at the indices i and j exchanged.
Exchanged(i, j) ==
    /\ Len(entries') = Len(entries)
    /\ \A k \in 1..Len(entries) :
           entries'[k].id = entries[IF k = i THEN j
                                    ELSE IF k = j THEN i ELSE k].id

(* C21: move_entry_up on the entry at list index i > 0 exchanges it with   *)
(* the entry at index i-1 and leaves every other entry at its index,       *)
(* move_entry_down likewise with the entry at i+1 for i < N-1;             *)
(* move_entry_up on the first entry and move_entry_down on the last leave  *)
(* the list, order and positions, as it is.                                *)
C21_MoveExchanges ==
    [][/\ (Called("up") /\ elast'.index > 1)
              => Exchanged(elast'.index, elast'.index - 1)
       /\ (Called("up") /\ elast'.index = 1) => entries' = entries
       /\ (Called("down") /\ elast'.index < Len(entries))
              => Exchanged(elast'.index, elast'.index + 1)
       /\ (Called("down") /\ elast'.index = Len(entries))
              => entries' = entries]_vars

\* The middle entry of a list of three has been moved down, and an entry
\* has been moved up from the middle or the end.
C21_Witness ==
    /\ Len(entries) = MaxEntries
    /\ elast.err = ""
    /\ \/ elast.op = "down" /\ elast.index = 2
       \/ elast.op = "up" /\ elast.index >= 2

----------------------------------------------------------------------------
\* The stored position of the object id in the list es.
PositionOf(es, id) == es[IndexOf(es, id)].entry_num

\* The step moved an entry (it was not at the end it was moved towards).
Moved ==
    \/ Called("up") /\ elast'.index > 1
    \/ Called("down") /\ elast'.index < Len(entries)

\* The list index of the entry that the moved entry passed.
Passed == IF elast'.op = "up" THEN elast'.index - 1 ELSE elast'.index + 1

\* The moved entry's stored position changes by -1 (up) or +1 (down).
MovedByOne ==
    PositionOf(entries', elast'.id)
        = PositionOf(entries, elast'.id)
              + (IF elast'.op = "up" THEN -1 ELSE 1)

(* C22 as the specification states it: a move changes the stored position  *)
(* of the moved entry only, by -1 or +1, and the stored position of the    *)
(* entry it passes and of every other entry stays what it was.             *)
C22_OnlyMovedRenumbered ==
    [][Moved =>
          /\ MovedByOne
          /\ \A k \in 1..Len(entries) :
                 entries[k].id # elast'.id
                 => PositionOf(entries', entries[k].id)
                        = entries[k].entry_num]_vars

(* C22, amended: a move changes the stored position of the moved entry by  *)
(* -1 (up) or +1 (down) and that of the entry it passes by +1 (up) or -1   *)
(* (down), and the stored position of no other entry.                      *)
C22_MovedAndPassedRenumbered ==
    [][Moved =>
          /\ MovedByOne
          /\ PositionOf(entries', entries[Passed].id)
                 = entries[Passed].entry_num
                       + (IF elast'.op = "up" THEN 1 ELSE -1)
          /\ \A k \in 1..Len(entries) :
                 (entries[k].id # elast'.id /\ k # Passed)
                 => PositionOf(entries', entries[k].id)
                        = entries[k].entry_num]_vars

\* An entry of a list of three has been moved down past another, a third
\* entry being in the list.
C22_Witness ==
    /\ Len(entries) = MaxEntries
    /\ elast.op = "down" /\ elast.err = ""
    /\ elast.index \in 1..(MaxEntries - 1)

----------------------------------------------------------------------------
(* C23: del_entry on the entry at list index i removes that entry and no   *)
(* other, keeps the others in their order, leaves the stored positions of  *)
(* the entries before i as they are and takes one off the stored position  *)
(* of every entry after i.                                                 *)
C23_DeleteRenumbers ==
    [][Called("del") =>
          /\ Len(entries') = Len(entries) - 1
          /\ \A k \in 1..(elast'.index - 1) : entries'[k] = entries[k]
          /\ \A k \in elast'.index..Len(entries') :
                 entries'[k] = Renum(entries[k + 1], -1)]_vars

\* An entry that was not the last one of its list has been deleted.
C23_Witness ==
    /\ elast.op = "del" /\ elast.err = ""
    /\ elast.index >= 1
    /\ elast.index <= Len(entries)

----------------------------------------------------------------------------
(* C24 as the specification states it: bytes_fixlen(b, n) returns exactly  *)
(* n bytes: for b of at most n bytes, b preceded by zero bytes; for b of   *)
(* more than n bytes, the last n bytes of b (the leading bytes are         *)
(* dropped).                                                               *)
C24_FixLenKeepsLastBytes ==
    ev.op = "bytes_fixlen"
    => LET b == ev.arg[1]
           n == ev.arg[2]
       IN  /\ Len(ev.ret[1]) = n
           /\ Len(b) <= n => ev.ret[1] = Zeros(n - Len(b)) \o b
           /\ Len(b) > n => ev.ret[1] = SubSeq(b, Len(b) - n + 1, Len(b))

(* C24, amended: bytes_fixlen(b, n) returns exactly n bytes: for b of at   *)
(* most n bytes, b preceded by zero bytes; for b of more than n bytes,     *)
(* the first n bytes of b (the trailing bytes are dropped).                *)
C24_FixLenKeepsFirstBytes ==
    ev.op = "bytes_fixlen"
    => LET b == ev.arg[1]
           n == ev.arg[2]
       IN  /\ Len(ev.ret[1]) = n
           /\ Len(b) <= n => ev.ret[1] = Zeros(n - Len(b)) \o b
           /\ Len(b) > n => \A i \in 1..n : ev.ret[1][i] = b[i]

\* A sequence that is longer than the length asked for, and whose first
\* bytes are not its last ones, has been cut.
C24_Witness ==
    /\ ev.op = "bytes_fixlen"
    /\ Len(ev.arg[1]) > ev.arg[2]
    /\ ev.arg[2] > 0
    /\ ev.arg[1][1] # ev.arg[1][Len(ev.arg[1]) - ev.arg[2] + 1]

----------------------------------------------------------------------------
\* The number that the bytes b are the big-endian digits of, base 256; 0
\* for no bytes.
RECURSIVE BigEndian(_)
BigEndian(b) ==
    IF b = <<>> THEN 0
    ELSE 256 * BigEndian(SubSeq(b, 1, Len(b) - 1)) + b[Len(b)]

(* C25: num_to_bytes(n) is defined for every n >= 0, bytes_to_num of what  *)
(* it returns is n, and what it returns is the big-endian form of n with   *)
(* no leading zero byte for n > 0.                                         *)
C25_NumberRoundTrip ==
    ev.op = "num_to_bytes"
    => /\ ev.out = ""
       /\ bytes_to_num(ev.ret[1]) = Ok(ev.arg[3])
       /\ BigEndian(ev.ret[1]) = ev.arg[3]
       /\ ev.arg[3] > 0 => ev.ret[1][1] # 0

(* C26: bytes_to_num of the empty byte sequence returns 0 and does not     *)
(* fail; of a non-empty sequence it returns the big-endian value.          *)
C26_EmptyBytesAreZero ==
    ev.op = "bytes_to_num"
    => /\ ev.out = ""
       /\ ev.ret[1] = BigEndian(ev.arg[1])

----------------------------------------------------------------------------
\* The key is the digest of pepper + password + salt for the password it
\* was derived from (passwords are ASCII, their bytes are their text).
KeyUnder(key, salt) == key = DeriveKey(key.pw, salt)

(* C27: the key an Account object holds is the digest of pepper + password *)
(* + the salt the object holds, after creation, after load and after any   *)
(* number of changes and saves; so every account file written (the salt    *)
(* and behind it the body encrypted under the key) is decrypted by a later *)
(* login with the same password, over any number of logins, saves and      *)
(* logouts.                                                                *)
C27_KeyMatchesSalt ==
    /\ mgr.current_session # None
           => KeyUnder(mgr.current_session[1].password,
                       mgr.current_session[1].salt)
    /\ \A n \in FileNames :
           files[n].kind = "data"
           => /\ KeyUnder(files[n].key, files[n].salt)
              /\ checks_auth(files[n], files[n].key.pw, <<>>)
                     = [kind |-> "bytes", v |-> AesUnpad(files[n].padded)]

\* A login has decrypted a file that an Account object made by an earlier
\* login had written twice, at a save and at its logout.
C27_Witness ==
    /\ ev.op = "login" /\ ev.out = ""
    /\ mgr.current_session # None
    /\ \E w \in wlog :
           /\ w.nth = 2
           /\ w.oid # mgr.current_session[1].oid
           /\ files[sanitize_fname(mgr.current_session[1].username)].kind
                  = "data"
           /\ files[sanitize_fname(mgr.current_session[1].username)].salt
                  = w.salt
           /\ w.salt # 0

----------------------------------------------------------------------------
\* The step lifts a lockout: a thread of hardlock() puts the method of the
\* class back as create_session.
Lifts ==
    \E t \in DOMAIN timers :
        /\ timers[t].pc = "restore"
        /\ timers'[t].pc = "clearflag"
        /\ mgr'.create_session = Method

\* No thread of hardlock() is running and one has lifted its lockout after
\* the last successful login: hardlock_delay is set to 20 by a successful
\* login and raised only by such a thread, just before it lifts the lockout.
LiftedBefore ==
    Live(timers) = {} /\ mgr.hardlock_delay > INIT_HARDLOCK_DELAY

(* C28: the lifting of a lockout leaves failed_attempts at its value, which *)
(* is at least 5, since only a successful login sets it to 0; so after a    *)
(* lockout has lifted, one more failed login (InvalidCredentials or         *)
(* InvalidAccountFormat) calls hardlock() at once.                          *)
C28_LiftKeepsCounter ==
    [][/\ Lifts => /\ mgr'.failed_attempts = mgr.failed_attempts
                   /\ mgr'.failed_attempts >= MAX_FAILED_ATTEMPTS
       /\ (ev'.op = "login" /\ Counted(ev'.out) /\ LiftedBefore)
              => ev'.hardlock]_vars

=============================================================================
